---- MODULE Spec2Model ----
(***************************************************************************)
(* Model of src/agent.py: LeadQualificationAgent.                          *)
(*                                                                         *)
(* The agent is a stateless rule evaluator.  A behaviour of the model is   *)
(* one call of one of its five methods: the initial state holds the method *)
(* name and its arguments, the single step of the behaviour runs the whole *)
(* method and stores what it returns.                                      *)
(*                                                                         *)
(* Python values are represented as follows.                               *)
(*   str        a sequence of one-character strings                        *)
(*   List[str]  a sequence of such sequences                               *)
(*   None       the one-element sequence <<"None">>, which is neither a    *)
(*              str (its element is not a character) nor a list of str     *)
(*   int, bool  Integers, BOOLEAN                                          *)
(* A character outside ASCII is written as the name of its code point,     *)
(* one sequence element per character: "U+20B9" is the rupee sign,         *)
(* "U+2013" the en dash and "U+2011" the non-breaking hyphen with which    *)
(* the source spells Short-Term and Long-Term.                             *)
(***************************************************************************)
EXTENDS Integers, Sequences, FiniteSets, TLC

VARIABLES fn, arg, ret, pc

vars == <<fn, arg, ret, pc>>

(***************************************************************************)
(* Bounds of the explored inputs.                                          *)
(***************************************************************************)
\* longest urgency text, counted in chunks of UrgencyChunks
MaxChunks == 4

\* longest list of subjects
MaxSubjects == 2

(***************************************************************************)
(* Python built-ins used by the agent.                                     *)
(***************************************************************************)
None == <<"None">>

\* `not x` for x an Optional[str] or Optional[List[str]]
Falsy(x) == x = None \/ x = <<>>

\* `a or b`
PyOr(a, b) == IF Falsy(a) THEN b ELSE a

UpperChars == <<"A","B","C","D","E","F","G","H","I","J","K","L","M","N","O","P","Q","R","S","T","U","V","W","X","Y","Z">>

LowerChars == <<"a","b","c","d","e","f","g","h","i","j","k","l","m","n","o","p","q","r","s","t","u","v","w","x","y","z">>

DigitChars == <<"0","1","2","3","4","5","6","7","8","9">>

IsDigit(c) == \E i \in 1..10 : DigitChars[i] = c

DigitVal(c) == (CHOOSE i \in 1..10 : DigitChars[i] = c) - 1

IsSpace(c) == c \in {" ", "\t", "\n"}

LowerChar(c) ==
  IF \E i \in 1..26 : UpperChars[i] = c
  THEN LowerChars[CHOOSE i \in 1..26 : UpperChars[i] = c]
  ELSE c

\* str.lower()
lower(s) == [i \in 1..Len(s) |-> LowerChar(s[i])]

\* `needle in hay` for two str
str_in(needle, hay) ==
  \E i \in 0..(Len(hay) - Len(needle)) :
     SubSeq(hay, i + 1, i + Len(needle)) = needle

\* s.replace(old, new) for a one-character old
RECURSIVE replace(_, _, _)
replace(s, old, new) ==
  IF s = <<>> THEN <<>>
  ELSE IF Head(s) = old THEN new \o replace(Tail(s), old, new)
  ELSE <<Head(s)>> \o replace(Tail(s), old, new)

\* sep.join(xs) for a list of str
RECURSIVE join(_, _)
join(sep, xs) ==
  IF xs = <<>> THEN <<>>
  ELSE IF Len(xs) = 1 THEN xs[1]
  ELSE xs[1] \o sep \o join(sep, Tail(xs))

\* int(s) for s a non-empty str of decimal digits
RECURSIVE int(_)
int(s) ==
  IF s = <<>> THEN 0
  ELSE int(SubSeq(s, 1, Len(s) - 1)) * 10 + DigitVal(s[Len(s)])

\* str(n) for n >= 0, as used by the f-strings
RECURSIVE str(_)
str(n) ==
  IF n < 10 THEN <<DigitChars[n + 1]>>
  ELSE str(n \div 10) \o <<DigitChars[(n % 10) + 1]>>

\* min(xs), max(xs) of a non-empty list of int
min(xs) == CHOOSE m \in {xs[i] : i \in 1..Len(xs)} : \A i \in 1..Len(xs) : m <= xs[i]

max(xs) == CHOOSE m \in {xs[i] : i \in 1..Len(xs)} : \A i \in 1..Len(xs) : m >= xs[i]

\* round(num / den) for num >= 0, den > 0: halves go to the even neighbour
round(num, den) ==
  LET q == num \div den
      r == num % den
  IN  IF 2 * r < den THEN q
      ELSE IF 2 * r > den THEN q + 1
      ELSE IF q % 2 = 0 THEN q ELSE q + 1

\* last index of the longest run of digits that starts at index i (\d+,
\* greedy); i - 1 when s[i] is not a digit
RECURSIVE DigitRunEnd(_, _)
DigitRunEnd(s, i) ==
  IF i <= Len(s) /\ IsDigit(s[i]) THEN DigitRunEnd(s, i + 1) ELSE i - 1

\* last index of the longest run of whitespace that starts at index i (\s*,
\* greedy); i - 1 when s[i] is not whitespace
RECURSIVE SpaceRunEnd(_, _)
SpaceRunEnd(s, i) ==
  IF i <= Len(s) /\ IsSpace(s[i]) THEN SpaceRunEnd(s, i + 1) ELSE i - 1

\* the text at index i.. starts with word, ignoring case (re.IGNORECASE)
StartsWithAt(s, i, word) ==
  /\ i + Len(word) - 1 <= Len(s)
  /\ lower(SubSeq(s, i, i + Len(word) - 1)) = lower(word)

(***************************************************************************)
(* The agent's configuration (dataclass fields, default values).           *)
(***************************************************************************)
high_intent_threshold == 80

medium_intent_threshold == 60

low_intent_threshold == 40

(***************************************************************************)
(* _parse_budget                                                           *)
(***************************************************************************)
\* last index of the longest match of (?:,\d{3})* that starts after index j
RECURSIVE ThousandsEnd(_, _)
ThousandsEnd(s, j) ==
  IF /\ j + 4 <= Len(s)
     /\ s[j + 1] = ","
     /\ IsDigit(s[j + 2]) /\ IsDigit(s[j + 3]) /\ IsDigit(s[j + 4])
  THEN ThousandsEnd(s, j + 4)
  ELSE j

\* re.findall(r"\d+(?:,\d{3})*", s), scanning from index i
RECURSIVE findall_numbers(_, _)
findall_numbers(s, i) ==
  IF i > Len(s) THEN <<>>
  ELSE IF IsDigit(s[i])
       THEN LET k == ThousandsEnd(s, DigitRunEnd(s, i))
            IN  <<SubSeq(s, i, k)>> \o findall_numbers(s, k + 1)
       ELSE findall_numbers(s, i + 1)

\* returns <<range_str, category>>
_parse_budget(budget_str) ==
  IF Falsy(budget_str) THEN <<<<"U","n","k","n","o","w","n">>, <<"U","n","k","n","o","w","n">>>>
  ELSE
    LET numbers == findall_numbers(budget_str, 1)
    IN  IF numbers # <<>>
        THEN LET amounts == [i \in 1..Len(numbers) |-> int(replace(numbers[i], ",", <<>>))]
                 low == min(amounts)
                 high == max(amounts)
                 category == IF high <= 3000 THEN <<"L","o","w">>
                             ELSE IF high <= 8000 THEN <<"M","e","d","i","u","m">>
                             ELSE <<"H","i","g","h">>
                 range_str == IF low # high
                              THEN <<"U+20B9">> \o str(low) \o <<"U+2013","U+20B9">> \o str(high)
                              ELSE <<"U+20B9">> \o str(low)
             IN  <<range_str, category>>
        ELSE <<<<"U","n","k","n","o","w","n">>, <<"U","n","k","n","o","w","n">>>>

(***************************************************************************)
(* _determine_urgency                                                      *)
(***************************************************************************)
\* re.search(r"(\d+)\s*(?:unit|units)", s, re.IGNORECASE), scanning from
\* index i: group(1) of the leftmost match, None when nothing matches.
\* \d+ and \s* are greedy and giving characters back never helps: after a
\* shorter run of digits comes a digit, after a shorter run of whitespace
\* comes whitespace, and neither starts the unit.
RECURSIVE re_search(_, _, _)
re_search(s, i, unit) ==
  IF i > Len(s) THEN None
  ELSE LET j == DigitRunEnd(s, i)
           k == SpaceRunEnd(s, j + 1)
       IN  IF /\ j >= i
              /\ \/ StartsWithAt(s, k + 1, unit)
                 \/ StartsWithAt(s, k + 1, unit \o <<"s">>)
           THEN SubSeq(s, i, j)
           ELSE re_search(s, i + 1, unit)

_determine_urgency_days_first(urgency_str) ==
  IF Falsy(urgency_str) THEN <<"L","o","n","g","U+2011","T","e","r","m">>
  ELSE
    LET days_match == re_search(urgency_str, 1, <<"d","a","y">>)
        hours_match == re_search(urgency_str, 1, <<"h","o","u","r">>)
    IN  IF days_match # None /\ int(days_match) <= 2 THEN <<"I","m","m","e","d","i","a","t","e">>
        ELSE IF days_match # None /\ int(days_match) <= 7 THEN <<"S","h","o","r","t","U+2011","T","e","r","m">>
        ELSE IF hours_match # None
        THEN IF int(hours_match) <= 48 THEN <<"I","m","m","e","d","i","a","t","e">> ELSE <<"S","h","o","r","t","U+2011","T","e","r","m">>
        ELSE <<"L","o","n","g","U+2011","T","e","r","m">>

_determine_urgency(urgency_str) ==
  IF Falsy(urgency_str) THEN <<"L","o","n","g","U+2011","T","e","r","m">>
  ELSE
    LET days_match == re_search(urgency_str, 1, <<"d","a","y">>)
        hours_match == re_search(urgency_str, 1, <<"h","o","u","r">>)
    IN  IF hours_match # None
        THEN IF int(hours_match) <= 48 THEN <<"I","m","m","e","d","i","a","t","e">> ELSE <<"S","h","o","r","t","U+2011","T","e","r","m">>
        ELSE IF days_match # None /\ int(days_match) <= 2 THEN <<"I","m","m","e","d","i","a","t","e">>
        ELSE IF days_match # None /\ int(days_match) <= 7 THEN <<"S","h","o","r","t","U+2011","T","e","r","m">>
        ELSE <<"L","o","n","g","U+2011","T","e","r","m">>

(***************************************************************************)
(* _assess_subject_complexity                                              *)
(***************************************************************************)
high_complexity_keywords == {<<"J","E","E">>, <<"N","E","E","T">>, <<"I","I","T">>, <<"I","B">>, <<"I","G","C","S","E">>}

medium_complexity_keywords == {<<"M","a","t","h">>, <<"P","h","y","s","i","c","s">>, <<"C","h","e","m","i","s","t","r","y">>, <<"B","i","o","l","o","g","y">>}

\* for sub in subjects[i..]: for keyword in keywords:
\*     if keyword.lower() in sub.lower(): return True
\* (falls off the end: False)
RECURSIVE KeywordLoop(_, _, _)
KeywordLoop(subjects, i, keywords) ==
  IF i > Len(subjects) THEN FALSE
  ELSE IF \E keyword \in keywords : str_in(lower(keyword), lower(subjects[i]))
       THEN TRUE
       ELSE KeywordLoop(subjects, i + 1, keywords)

\* one loop over the subjects that tests both keyword sets on each subject:
\* the first subject with any keyword decides
_assess_subject_complexity_single_loop(subjects) ==
  IF Falsy(subjects) THEN <<"U","n","k","n","o","w","n">>
  ELSE
    LET IsHigh(i) == KeywordLoop(<<subjects[i]>>, 1, high_complexity_keywords)
        IsMedium(i) == KeywordLoop(<<subjects[i]>>, 1, medium_complexity_keywords)
        hits == {i \in 1..Len(subjects) : IsHigh(i) \/ IsMedium(i)}
    IN  IF hits = {} THEN <<"L","o","w">>
        ELSE IF IsHigh(CHOOSE i \in hits : \A h \in hits : i <= h) THEN <<"H","i","g","h">>
        ELSE <<"M","e","d","i","u","m">>

_assess_subject_complexity(subjects) ==
  IF Falsy(subjects) THEN <<"U","n","k","n","o","w","n">>
  ELSE IF KeywordLoop(subjects, 1, high_complexity_keywords) THEN <<"H","i","g","h">>
  ELSE IF KeywordLoop(subjects, 1, medium_complexity_keywords) THEN <<"M","e","d","i","u","m">>
  ELSE <<"L","o","w">>

(***************************************************************************)
(* _compute_location_feasibility                                           *)
(***************************************************************************)
_compute_location_feasibility_city70(location, mode) ==
  IF Falsy(location) THEN 50
  ELSE IF ~Falsy(mode) /\ lower(mode) = <<"o","n","l","i","n","e">> THEN 100
  ELSE
    LET loc_lower == lower(location)
    IN  IF \E term \in {<<"s","e","c","t","o","r">>, <<"s","o","c","i","e","t","y">>, <<"b","l","o","c","k">>} : str_in(term, loc_lower)
        THEN 80
        ELSE IF \E term \in {<<"c","i","t","y">>, <<"t","o","w","n">>, <<"d","i","s","t","r","i","c","t">>} : str_in(term, loc_lower)
        THEN 70
        ELSE 50

_compute_location_feasibility(location, mode) ==
  IF Falsy(location) THEN 50
  ELSE IF ~Falsy(mode) /\ lower(mode) = <<"o","n","l","i","n","e">> THEN 100
  ELSE
    LET loc_lower == lower(location)
    IN  IF \E term \in {<<"s","e","c","t","o","r">>, <<"s","o","c","i","e","t","y">>, <<"b","l","o","c","k">>} : str_in(term, loc_lower)
        THEN 80
        ELSE IF \E term \in {<<"c","i","t","y">>, <<"t","o","w","n">>, <<"d","i","s","t","r","i","c","t">>} : str_in(term, loc_lower)
        THEN 60
        ELSE 50

(***************************************************************************)
(* qualify_lead.  The score and the reasoning log are threaded through the *)
(* four adjustments as a record [quality_score, reasoning_lines].          *)
(***************************************************************************)
\* lead.get(key): a key that is absent and a key that holds None read alike
LeadGet(lead, key) == lead[key]

Adjusted(acc, delta, line) ==
  [quality_score |-> acc.quality_score + delta,
   reasoning_lines |-> Append(acc.reasoning_lines, line)]

BudgetAdjust(acc, budget_category) ==
  IF budget_category = <<"L","o","w">>
  THEN Adjusted(acc, 5, <<"L","o","w"," ","b","u","d","g","e","t"," ","i","m","p","l","i","e","s"," ","a","f","f","o","r","d","a","b","i","l","i","t","y",";"," ","s","m","a","l","l"," ","b","o","o","s","t",".">>)
  ELSE IF budget_category = <<"M","e","d","i","u","m">>
  THEN Adjusted(acc, 10, <<"M","e","d","i","u","m"," ","b","u","d","g","e","t"," ","s","u","g","g","e","s","t","s"," ","m","o","d","e","r","a","t","e"," ","a","f","f","o","r","d","a","b","i","l","i","t","y",".">>)
  ELSE IF budget_category = <<"H","i","g","h">>
  THEN Adjusted(acc, 20, <<"H","i","g","h"," ","b","u","d","g","e","t"," ","i","n","d","i","c","a","t","e","s"," ","s","t","r","o","n","g"," ","a","b","i","l","i","t","y"," ","t","o"," ","p","a","y",".">>)
  ELSE acc

UrgencyAdjust(acc, urgency_level) ==
  IF urgency_level = <<"I","m","m","e","d","i","a","t","e">>
  THEN Adjusted(acc, 20, <<"I","m","m","e","d","i","a","t","e"," ","u","r","g","e","n","c","y"," ","i","n","d","i","c","a","t","e","s"," ","h","i","g","h"," ","i","n","t","e","n","t",".">>)
  ELSE IF urgency_level = <<"S","h","o","r","t","U+2011","T","e","r","m">>
  THEN Adjusted(acc, 10, <<"S","h","o","r","t","U+2011","t","e","r","m"," ","u","r","g","e","n","c","y"," ","i","n","d","i","c","a","t","e","s"," ","m","e","d","i","u","m"," ","i","n","t","e","n","t",".">>)
  ELSE acc

ComplexityAdjust(acc, subject_complexity) ==
  IF subject_complexity = <<"H","i","g","h">>
  THEN Adjusted(acc, 15, <<"H","i","g","h"," ","c","o","m","p","l","e","x","i","t","y"," ","s","u","b","j","e","c","t","s"," ","r","e","q","u","i","r","e"," ","s","p","e","c","i","a","l","i","z","e","d"," ","t","u","t","o","r","s",".">>)
  ELSE IF subject_complexity = <<"M","e","d","i","u","m">>
  THEN Adjusted(acc, 5, <<"M","e","d","i","u","m"," ","c","o","m","p","l","e","x","i","t","y"," ","s","u","b","j","e","c","t","s"," ","a","r","e"," ","c","o","m","m","o","n"," ","b","u","t"," ","s","i","g","n","i","f","i","c","a","n","t",".">>)
  ELSE acc

\* the bonus needs a feasibility score above 80
FeasibilityAdjust_strict(acc, location_feasibility_score) ==
  IF location_feasibility_score > 80
  THEN Adjusted(acc, 10, <<"P","r","e","c","i","s","e"," ","l","o","c","a","t","i","o","n"," ","m","a","k","e","s"," ","h","o","m","e"," ","t","u","t","o","r","i","n","g"," ","f","e","a","s","i","b","l","e",".">>)
  ELSE IF location_feasibility_score <= 60
  THEN Adjusted(acc, 0 - 5, <<"G","e","n","e","r","i","c"," ","l","o","c","a","t","i","o","n"," ","l","o","w","e","r","s"," ","m","a","t","c","h"," ","c","o","n","f","i","d","e","n","c","e",".">>)
  ELSE acc

\* the penalty is 15 instead of 5
FeasibilityAdjust_penalty15(acc, location_feasibility_score) ==
  IF location_feasibility_score >= 80
  THEN Adjusted(acc, 10, <<"P","r","e","c","i","s","e"," ","l","o","c","a","t","i","o","n"," ","m","a","k","e","s"," ","h","o","m","e"," ","t","u","t","o","r","i","n","g"," ","f","e","a","s","i","b","l","e",".">>)
  ELSE IF location_feasibility_score <= 60
  THEN Adjusted(acc, 0 - 15, <<"G","e","n","e","r","i","c"," ","l","o","c","a","t","i","o","n"," ","l","o","w","e","r","s"," ","m","a","t","c","h"," ","c","o","n","f","i","d","e","n","c","e",".">>)
  ELSE acc

FeasibilityAdjust(acc, location_feasibility_score) ==
  IF location_feasibility_score >= 80
  THEN Adjusted(acc, 10, <<"P","r","e","c","i","s","e"," ","l","o","c","a","t","i","o","n"," ","m","a","k","e","s"," ","h","o","m","e"," ","t","u","t","o","r","i","n","g"," ","f","e","a","s","i","b","l","e",".">>)
  ELSE IF location_feasibility_score <= 60
  THEN Adjusted(acc, 0 - 5, <<"G","e","n","e","r","i","c"," ","l","o","c","a","t","i","o","n"," ","l","o","w","e","r","s"," ","m","a","t","c","h"," ","c","o","n","f","i","d","e","n","c","e",".">>)
  ELSE acc

\* the upper bound is forgotten
BoundScore_no_upper(quality_score) == max(<<0, quality_score>>)

\* max(0, min(100, quality_score))
BoundScore(quality_score) == max(<<0, min(<<100, quality_score>>)>>)

\* the thresholds are compared with > instead of >=
QualityLabel_strict(quality_score) ==
  IF quality_score > high_intent_threshold
  THEN [lead_quality_label |-> <<"H","i","g","h">>, intent_level |-> <<"H","i","g","h"," ","I","n","t","e","n","t">>]
  ELSE IF quality_score > medium_intent_threshold
  THEN [lead_quality_label |-> <<"M","e","d","i","u","m">>, intent_level |-> <<"M","e","d","i","u","m"," ","I","n","t","e","n","t">>]
  ELSE IF quality_score > low_intent_threshold
  THEN [lead_quality_label |-> <<"L","o","w">>, intent_level |-> <<"L","o","w"," ","I","n","t","e","n","t">>]
  ELSE [lead_quality_label |-> <<"I","n","v","a","l","i","d">>, intent_level |-> <<"L","o","w"," ","I","n","t","e","n","t">>]

QualityLabel(quality_score) ==
  IF quality_score >= high_intent_threshold
  THEN [lead_quality_label |-> <<"H","i","g","h">>, intent_level |-> <<"H","i","g","h"," ","I","n","t","e","n","t">>]
  ELSE IF quality_score >= medium_intent_threshold
  THEN [lead_quality_label |-> <<"M","e","d","i","u","m">>, intent_level |-> <<"M","e","d","i","u","m"," ","I","n","t","e","n","t">>]
  ELSE IF quality_score >= low_intent_threshold
  THEN [lead_quality_label |-> <<"L","o","w">>, intent_level |-> <<"L","o","w"," ","I","n","t","e","n","t">>]
  ELSE [lead_quality_label |-> <<"I","n","v","a","l","i","d">>, intent_level |-> <<"L","o","w"," ","I","n","t","e","n","t">>]

\* the urgency is not consulted
RecommendedAgent_ignore_urgency(lead_quality_label, urgency_level) ==
  IF lead_quality_label = <<"H","i","g","h">> THEN <<"T","u","t","o","r"," ","M","a","t","c","h","i","n","g"," ","A","g","e","n","t">>
  ELSE IF lead_quality_label = <<"M","e","d","i","u","m">> THEN <<"A","c","a","d","e","m","i","c"," ","C","o","u","n","s","e","l","o","r"," ","A","g","e","n","t">>
  ELSE IF lead_quality_label = <<"L","o","w">> THEN <<"W","h","a","t","s","A","p","p"," ","N","u","r","t","u","r","e"," ","A","g","e","n","t">>
  ELSE <<"A","r","c","h","i","v","e"," ","/"," ","I","g","n","o","r","e"," ","A","g","e","n","t">>

RecommendedAgent(lead_quality_label, urgency_level) ==
  IF lead_quality_label = <<"H","i","g","h">>
  THEN IF urgency_level = <<"I","m","m","e","d","i","a","t","e">>
       THEN <<"T","u","t","o","r"," ","M","a","t","c","h","i","n","g"," ","A","g","e","n","t">>
       ELSE <<"S","a","l","e","s"," ","C","l","o","s","u","r","e"," ","A","g","e","n","t">>
  ELSE IF lead_quality_label = <<"M","e","d","i","u","m">> THEN <<"A","c","a","d","e","m","i","c"," ","C","o","u","n","s","e","l","o","r"," ","A","g","e","n","t">>
  ELSE IF lead_quality_label = <<"L","o","w">> THEN <<"W","h","a","t","s","A","p","p"," ","N","u","r","t","u","r","e"," ","A","g","e","n","t">>
  ELSE <<"A","r","c","h","i","v","e"," ","/"," ","I","g","n","o","r","e"," ","A","g","e","n","t">>

\* round(abs(quality_score - 50) / 50 * 100)
Confidence(quality_score) ==
  LET d == IF quality_score >= 50 THEN quality_score - 50 ELSE 50 - quality_score
  IN  round(d * 100, 50)

\* only the High label spares the human
HumanAttentionRequired_high_only(lead_quality_label) ==
  IF lead_quality_label \in {<<"H","i","g","h">>} THEN FALSE ELSE TRUE

\* False if lead_quality_label in {"High", "Medium"} else True
HumanAttentionRequired(lead_quality_label) ==
  IF lead_quality_label \in {<<"H","i","g","h">>, <<"M","e","d","i","u","m">>} THEN FALSE ELSE TRUE

qualify_lead(lead) ==
  LET lead_id == PyOr(LeadGet(lead, "lead_id"), <<>>)
      mode == PyOr(PyOr(LeadGet(lead, "mode_preference"), LeadGet(lead, "mode")),
                   <<"U","n","k","n","o","w","n">>)
      subjects == PyOr(LeadGet(lead, "subjects"), <<>>)
      budget == PyOr(LeadGet(lead, "budget"), LeadGet(lead, "budget_range"))
      urgency == LeadGet(lead, "urgency")
      parsed == _parse_budget(budget)
      budget_range == parsed[1]
      budget_category == parsed[2]
      urgency_level == _determine_urgency(urgency)
      subject_complexity == _assess_subject_complexity(subjects)
      location_feasibility_score ==
        _compute_location_feasibility(LeadGet(lead, "location"), mode)
      acc0 == [quality_score |-> 50, reasoning_lines |-> <<>>]
      acc1 == BudgetAdjust(acc0, budget_category)
      acc2 == UrgencyAdjust(acc1, urgency_level)
      acc3 == ComplexityAdjust(acc2, subject_complexity)
      acc4 == FeasibilityAdjust(acc3, location_feasibility_score)
      quality_score == BoundScore(acc4.quality_score)
      labels == QualityLabel(quality_score)
      lead_quality_label == labels.lead_quality_label
      intent_level == labels.intent_level
      recommended_agent == RecommendedAgent(lead_quality_label, urgency_level)
      confidence_in_recommendation == Confidence(quality_score)
      reasoning_summary ==
        PyOr(join(<<";"," ">>, acc4.reasoning_lines),
             <<"L","e","a","d"," ","e","v","a","l","u","a","t","e","d"," ","w","i","t","h"," ","d","e","f","a","u","l","t"," ","h","e","u","r","i","s","t","i","c","s",".">>)
      memory_tags == << <<"b","u","d","g","e","t",":">> \o lower(budget_category),
                        <<"u","r","g","e","n","c","y",":">> \o lower(urgency_level),
                        <<"c","o","m","p","l","e","x","i","t","y",":">> \o lower(subject_complexity),
                        <<"i","n","t","e","n","t",":">> \o replace(lower(intent_level), " ", <<"-">>) >>
  IN  [lead_id |-> lead_id,
       lead_quality_score |-> quality_score,
       lead_quality_label |-> lead_quality_label,
       intent_level |-> intent_level,
       urgency_level |-> urgency_level,
       budget_range_inferred |-> budget_range,
       preferred_mode |-> mode,
       subject_complexity |-> subject_complexity,
       location_feasibility_score |-> location_feasibility_score,
       recommended_next_agent |-> recommended_agent,
       confidence_in_recommendation |-> confidence_in_recommendation,
       reasoning_summary |-> reasoning_summary,
       memory_tags |-> memory_tags,
       human_attention_required |-> HumanAttentionRequired(lead_quality_label)]

(***************************************************************************)
(* The explored inputs.                                                    *)
(***************************************************************************)
\* all lists of at most n elements of S
RECURSIVE ListsUpTo(_, _)
ListsUpTo(S, n) ==
  IF n = 0 THEN {<<>>}
  ELSE LET L == ListsUpTo(S, n - 1)
       IN  L \cup {Append(l, x) : l \in L, x \in S}

\* all texts made of at most n chunks of S
RECURSIVE TextsUpTo(_, _)
TextsUpTo(S, n) ==
  IF n = 0 THEN {<<>>}
  ELSE LET T == TextsUpTo(S, n - 1)
       IN  T \cup {t \o c : t \in T, c \in S}

UrgencyChunks ==
  {<<"2">>, <<"4">>, <<"8">>, <<"9">>, <<" ">>, <<"h","o","u","r">>, <<"D","A","Y","S">>, <<"x">>}

UrgencyTexts ==
  TextsUpTo(UrgencyChunks, MaxChunks)
    \cup {None, <<"w","i","t","h","i","n"," ","2","4"," ","h","o","u","r","s">>, <<"i","n"," ","5"," ","d","a","y","s">>, <<"n","e","x","t"," ","m","o","n","t","h">>,
          <<"3"," ","d","a","y","s">>, <<"7"," ","D","a","y","s">>, <<"4","8"," ","H","o","u","r","s">>, <<"4","9"," ","h","o","u","r","s">>,
          <<"i","n"," ","1"," ","d","a","y"," ","o","r"," ","7","2"," ","h","o","u","r","s">>, <<"1","0","0"," ","h","o","u","r","s",","," ","a","t"," ","m","o","s","t"," ","2"," ","d","a","y","s">>}

BudgetTexts ==
  {None, <<>>, <<"n","e","g","o","t","i","a","b","l","e">>, <<"2","0","0","0">>, <<"3","0","0","0">>, <<"3",",","0","0","1">>, <<"8","0","0","0">>, <<"8","0","0","1">>,
   <<"U+20B9","3",",","0","0","0","U+2013","U+20B9","8",",","0","0","0">>, <<"U+20B9","1","0","0","0","0">>, <<"5","0","0"," ","p","e","r"," ","h","o","u","r">>, <<"1",",","0","0","0","0"," ","o","r"," ","2",",","5","0">>,
   <<"b","e","t","w","e","e","n"," ","9","0","0","0"," ","a","n","d"," ","2","5","0","0">>}

SubjectNames ==
  {<<"J","E","E"," ","M","a","i","n">>, <<"n","e","e","t"," ","p","r","e","p">>, <<"P","h","y","s","i","c","s">>, <<"M","A","T","H","S">>, <<"A","r","t">>, <<"E","n","g","l","i","s","h">>,
   <<"B","i","b","l","e"," ","s","t","u","d","y">>, <<>>}

SubjectLists == ListsUpTo(SubjectNames, MaxSubjects)

Locations ==
  {None, <<>>, <<"S","e","c","t","o","r"," ","2","1">>, <<"G","r","e","e","n"," ","S","o","c","i","e","t","y",","," ","B","l","o","c","k"," ","C">>, <<"D","e","l","h","i"," ","C","i","t","y">>,
   <<"O","l","d"," ","T","o","w","n",","," ","S","e","c","t","o","r"," ","5">>, <<"N","e","a","r"," ","t","h","e"," ","t","e","m","p","l","e">>}

Modes == {None, <<>>, <<"o","n","l","i","n","e">>, <<"O","n","l","i","n","e">>, <<"O","N","L","I","N","E">>, <<"o","f","f","l","i","n","e">>, <<"o","n","l","i","n","e"," ","o","n","l","y">>}

LeadSubjectLists == ListsUpTo({<<"J","E","E"," ","M","a","i","n">>, <<"P","h","y","s","i","c","s">>, <<"A","r","t">>}, MaxSubjects)

\* the leads given to qualify_lead whose subjects are drawn from S; a field
\* that holds None is an absent key
Leads(S) ==
  [lead_id : {None, <<"L","1">>},
   mode_preference : {None, <<"O","n","l","i","n","e">>},
   mode : {None, <<"o","n","l","i","n","e">>, <<"o","f","f","l","i","n","e">>},
   subjects : S,
   budget : {None, <<>>, <<"2","0","0","0">>, <<"U+20B9","3",",","0","0","0","U+2013","U+20B9","8",",","0","0","0">>, <<"U+20B9","1","0","0","0","0">>},
   budget_range : {None, <<"8",",","0","0","1">>},
   urgency : {None, <<"w","i","t","h","i","n"," ","2","4"," ","h","o","u","r","s">>, <<"i","n"," ","5"," ","d","a","y","s">>, <<"n","e","x","t"," ","m","o","n","t","h">>},
   location : {None, <<>>, <<"S","e","c","t","o","r"," ","2","1">>, <<"D","e","l","h","i"," ","C","i","t","y">>}]

(***************************************************************************)
(* The state machine: one call of one method.                              *)
(***************************************************************************)
Init ==
  /\ pc = "call"
  /\ ret = None
  /\ \/ fn = "_parse_budget" /\ arg \in [budget_str : BudgetTexts]
     \/ fn = "_determine_urgency" /\ arg \in [urgency_str : UrgencyTexts]
     \/ fn = "_assess_subject_complexity"
        /\ (arg \in [subjects : SubjectLists] \/ arg = [subjects |-> None])
     \/ fn = "_compute_location_feasibility"
        /\ arg \in [location : Locations, mode : Modes]
     \/ fn = "qualify_lead"
        /\ (arg \in [lead : Leads(LeadSubjectLists)] \/ arg \in [lead : Leads({None})])

Return(value) ==
  /\ ret' = value
  /\ pc' = "return"
  /\ UNCHANGED <<fn, arg>>

Call_parse_budget ==
  /\ pc = "call" /\ fn = "_parse_budget"
  /\ Return(_parse_budget(arg.budget_str))

Call_determine_urgency ==
  /\ pc = "call" /\ fn = "_determine_urgency"
  /\ Return(_determine_urgency(arg.urgency_str))

Call_assess_subject_complexity ==
  /\ pc = "call" /\ fn = "_assess_subject_complexity"
  /\ Return(_assess_subject_complexity(arg.subjects))

Call_compute_location_feasibility ==
  /\ pc = "call" /\ fn = "_compute_location_feasibility"
  /\ Return(_compute_location_feasibility(arg.location, arg.mode))

Call_qualify_lead ==
  /\ pc = "call" /\ fn = "qualify_lead"
  /\ Return(qualify_lead(arg.lead))

Next ==
  \/ Call_parse_budget
  \/ Call_determine_urgency
  \/ Call_assess_subject_complexity
  \/ Call_compute_location_feasibility
  \/ Call_qualify_lead

Spec == Init /\ [][Next]_vars

Returned(f) == pc = "return" /\ fn = f

(***************************************************************************)
(* Properties.                                                             *)
(***************************************************************************)

\* C1: for every lead, the quality score returned by qualify_lead is an
\* integer in 0..100 and so is the confidence.
C1_ScoreAndConfidenceInRange ==
  Returned("qualify_lead") =>
    /\ ret.lead_quality_score \in 0..100
    /\ ret.confidence_in_recommendation \in 0..100

\* a lead whose bonuses add up to 115, so that the upper bound has acted
C1_Witness ==
  /\ Returned("qualify_lead")
  /\ ret.memory_tags[1] = <<"b","u","d","g","e","t",":","h","i","g","h">>
  /\ ret.urgency_level = <<"I","m","m","e","d","i","a","t","e">>
  /\ ret.subject_complexity = <<"H","i","g","h">>
  /\ ret.location_feasibility_score >= 80
  /\ ret.lead_quality_score = 100
  /\ ret.confidence_in_recommendation = 100

\* C2: with the default thresholds the label is a partition of the score:
\* High iff score >= 80, Medium iff 60 <= score < 80, Low iff
\* 40 <= score < 60, Invalid iff score < 40.
C2_LabelPartitionsScore ==
  Returned("qualify_lead") =>
    LET score == ret.lead_quality_score
        label == ret.lead_quality_label
    IN  /\ label \in {<<"H","i","g","h">>, <<"M","e","d","i","u","m">>, <<"L","o","w">>, <<"I","n","v","a","l","i","d">>}
        /\ (label = <<"H","i","g","h">>) <=> (score >= 80)
        /\ (label = <<"M","e","d","i","u","m">>) <=> (60 <= score /\ score < 80)
        /\ (label = <<"L","o","w">>) <=> (40 <= score /\ score < 60)
        /\ (label = <<"I","n","v","a","l","i","d">>) <=> (score < 40)

\* a score on a threshold
C2_Witness ==
  /\ Returned("qualify_lead")
  /\ ret.lead_quality_score = 80
  /\ ret.lead_quality_label = <<"H","i","g","h">>

\* C3: the recommended agent is a function of (label, urgency level) and the
\* intent level a function of the label, as tabulated.
C3_RoutingAndIntent ==
  Returned("qualify_lead") =>
    LET label == ret.lead_quality_label
        agent == ret.recommended_next_agent
        intent == ret.intent_level
    IN  /\ (label = <<"H","i","g","h">> /\ ret.urgency_level = <<"I","m","m","e","d","i","a","t","e">>)
             => agent = <<"T","u","t","o","r"," ","M","a","t","c","h","i","n","g"," ","A","g","e","n","t">>
        /\ (label = <<"H","i","g","h">> /\ ret.urgency_level # <<"I","m","m","e","d","i","a","t","e">>)
             => agent = <<"S","a","l","e","s"," ","C","l","o","s","u","r","e"," ","A","g","e","n","t">>
        /\ (label = <<"M","e","d","i","u","m">>) => agent = <<"A","c","a","d","e","m","i","c"," ","C","o","u","n","s","e","l","o","r"," ","A","g","e","n","t">>
        /\ (label = <<"L","o","w">>) => agent = <<"W","h","a","t","s","A","p","p"," ","N","u","r","t","u","r","e"," ","A","g","e","n","t">>
        /\ (label = <<"I","n","v","a","l","i","d">>) => agent = <<"A","r","c","h","i","v","e"," ","/"," ","I","g","n","o","r","e"," ","A","g","e","n","t">>
        /\ (label = <<"H","i","g","h">>) => intent = <<"H","i","g","h"," ","I","n","t","e","n","t">>
        /\ (label = <<"M","e","d","i","u","m">>) => intent = <<"M","e","d","i","u","m"," ","I","n","t","e","n","t">>
        /\ (label \in {<<"L","o","w">>, <<"I","n","v","a","l","i","d">>}) => intent = <<"L","o","w"," ","I","n","t","e","n","t">>

\* a High lead that is not Immediate
C3_Witness ==
  /\ Returned("qualify_lead")
  /\ ret.lead_quality_label = <<"H","i","g","h">>
  /\ ret.urgency_level = <<"S","h","o","r","t","U+2011","T","e","r","m">>
  /\ ret.recommended_next_agent = <<"S","a","l","e","s"," ","C","l","o","s","u","r","e"," ","A","g","e","n","t">>

\* C4: the score is clamp[0,100] of 50 + budget bonus + urgency bonus +
\* complexity bonus + feasibility adjustment (+10 at >= 80, -5 at <= 60,
\* 0 in between); High/Immediate/High at feasibility 80 scores 100 with
\* confidence 100.
C4_ScoreFormula ==
  Returned("qualify_lead") =>
    LET lead == arg.lead
        budget == IF lead.budget \notin {None, <<>>}
                  THEN lead.budget ELSE lead.budget_range
        category == _parse_budget(budget)[2]
        budget_bonus == CASE category = <<"L","o","w">> -> 5
                          [] category = <<"M","e","d","i","u","m">> -> 10
                          [] category = <<"H","i","g","h">> -> 20
                          [] OTHER -> 0
        urgency_bonus == CASE ret.urgency_level = <<"I","m","m","e","d","i","a","t","e">> -> 20
                           [] ret.urgency_level = <<"S","h","o","r","t","U+2011","T","e","r","m">> -> 10
                           [] OTHER -> 0
        complexity_bonus == CASE ret.subject_complexity = <<"H","i","g","h">> -> 15
                              [] ret.subject_complexity = <<"M","e","d","i","u","m">> -> 5
                              [] OTHER -> 0
        f == ret.location_feasibility_score
        feasibility == CASE f >= 80 -> 10
                         [] f <= 60 -> 0 - 5
                         [] OTHER -> 0
        raw == 50 + budget_bonus + urgency_bonus + complexity_bonus + feasibility
        clamped == IF raw < 0 THEN 0 ELSE IF raw > 100 THEN 100 ELSE raw
    IN  /\ ret.lead_quality_score = clamped
        /\ (/\ category = <<"H","i","g","h">>
            /\ ret.urgency_level = <<"I","m","m","e","d","i","a","t","e">>
            /\ ret.subject_complexity = <<"H","i","g","h">>
            /\ f = 80)
           => /\ ret.lead_quality_score = 100
              /\ ret.confidence_in_recommendation = 100

\* the lead of the claim: High budget, Immediate, High complexity, feasibility 80
C4_Witness ==
  /\ Returned("qualify_lead")
  /\ arg.lead.budget = <<"U+20B9","1","0","0","0","0">>
  /\ ret.urgency_level = <<"I","m","m","e","d","i","a","t","e">>
  /\ ret.subject_complexity = <<"H","i","g","h">>
  /\ ret.location_feasibility_score = 80
  /\ ret.lead_quality_score = 100

\* C5: whenever the mode is "online" (ignoring case) the feasibility score is
\* 100 whatever the location, both for _compute_location_feasibility and in
\* the result of qualify_lead.
C5_OnlineAlways100 ==
  /\ Returned("_compute_location_feasibility")
       => ((arg.mode # None /\ lower(arg.mode) = <<"o","n","l","i","n","e">>) => ret = 100)
  /\ Returned("qualify_lead")
       => ((lower(ret.preferred_mode) = <<"o","n","l","i","n","e">>)
             => ret.location_feasibility_score = 100)

\* C6: an hours phrase "<N> hour(s)" decides before any days phrase:
\* Immediate when N <= 48, else Short-Term; without an hours phrase a days
\* phrase "<N> day(s)" gives Immediate for N <= 2, Short-Term for 3..7 and
\* Long-Term above; absent text or text with neither phrase gives Long-Term.
\* <N> is the number of the leftmost such phrase.
C6_HoursBeforeDays ==
  Returned("_determine_urgency") =>
    LET s == arg.urgency_str
        \* a phrase "<digits><whitespace>*<unit>" starts at i, digits end at j
        PhraseAt(i, j, unit) ==
          \E k \in (j + 1)..Len(s) :
            /\ \A m \in i..j : IsDigit(s[m])
            /\ \A m \in (j + 1)..(k - 1) : IsSpace(s[m])
            /\ k + Len(unit) - 1 <= Len(s)
            /\ \A m \in 1..Len(unit) : LowerChar(s[k + m - 1]) = unit[m]
        Starts(unit) ==
          {i \in 1..Len(s) : \E j \in i..Len(s) : PhraseAt(i, j, unit)}
        First(unit) == CHOOSE i \in Starts(unit) : \A h \in Starts(unit) : i <= h
        N(unit) ==
          LET i == First(unit)
              j == CHOOSE e \in i..Len(s) : PhraseAt(i, e, unit)
          IN  int(SubSeq(s, i, j))
        expected ==
          IF s = None \/ s = <<>> THEN <<"L","o","n","g","U+2011","T","e","r","m">>
          ELSE IF Starts(<<"h","o","u","r">>) # {}
          THEN IF N(<<"h","o","u","r">>) <= 48 THEN <<"I","m","m","e","d","i","a","t","e">> ELSE <<"S","h","o","r","t","U+2011","T","e","r","m">>
          ELSE IF Starts(<<"d","a","y">>) # {}
          THEN IF N(<<"d","a","y">>) <= 2 THEN <<"I","m","m","e","d","i","a","t","e">>
               ELSE IF N(<<"d","a","y">>) <= 7 THEN <<"S","h","o","r","t","U+2011","T","e","r","m">>
               ELSE <<"L","o","n","g","U+2011","T","e","r","m">>
          ELSE <<"L","o","n","g","U+2011","T","e","r","m">>
    IN  ret = expected

\* a days phrase that alone means Short-Term, followed by an hours phrase
C6_Witness ==
  /\ Returned("_determine_urgency")
  /\ arg.urgency_str = <<"4","D","A","Y","S","2","h","o","u","r">>
  /\ ret = <<"I","m","m","e","d","i","a","t","e">>

\* C7: the complexity is Unknown for no subjects, High if any subject
\* contains a high keyword, otherwise Medium if any subject contains a medium
\* keyword, otherwise Low; it is the same for every order of the subjects.
C7_ComplexityOrderIndependent ==
  Returned("_assess_subject_complexity") =>
    LET subjects == arg.subjects
        n == IF subjects = None THEN 0 ELSE Len(subjects)
        Has(sub, keyword) ==
          \E i \in 1..Len(sub) :
            /\ i + Len(keyword) - 1 <= Len(sub)
            /\ \A m \in 1..Len(keyword) :
                 LowerChar(sub[i + m - 1]) = LowerChar(keyword[m])
        AnyHas(keywords) ==
          \E i \in 1..n : \E keyword \in keywords : Has(subjects[i], keyword)
        expected ==
          IF n = 0 THEN <<"U","n","k","n","o","w","n">>
          ELSE IF AnyHas({<<"J","E","E">>, <<"N","E","E","T">>, <<"I","I","T">>, <<"I","B">>, <<"I","G","C","S","E">>}) THEN <<"H","i","g","h">>
          ELSE IF AnyHas({<<"M","a","t","h">>, <<"P","h","y","s","i","c","s">>, <<"C","h","e","m","i","s","t","r","y">>, <<"B","i","o","l","o","g","y">>}) THEN <<"M","e","d","i","u","m">>
          ELSE <<"L","o","w">>
        Orders == {p \in [1..n -> 1..n] : \A a, b \in 1..n : p[a] = p[b] => a = b}
    IN  /\ ret = expected
        /\ \A p \in Orders :
             _assess_subject_complexity([i \in 1..n |-> subjects[p[i]]]) = ret

\* a medium-keyword subject placed before a high-keyword subject
C7_Witness ==
  /\ Returned("_assess_subject_complexity")
  /\ arg.subjects = <<<<"P","h","y","s","i","c","s">>, <<"J","E","E"," ","M","a","i","n">>>>
  /\ ret = <<"H","i","g","h">>

\* C8: human_attention_required is true exactly for the labels Low and
\* Invalid, false exactly for High and Medium.
C8_HumanAttention ==
  Returned("qualify_lead") =>
    /\ ret.human_attention_required
         <=> ret.lead_quality_label \in {<<"L","o","w">>, <<"I","n","v","a","l","i","d">>}
    /\ ~ret.human_attention_required
         <=> ret.lead_quality_label \in {<<"H","i","g","h">>, <<"M","e","d","i","u","m">>}

\* a Medium lead, which needs no human
C8_Witness ==
  /\ Returned("qualify_lead")
  /\ ret.lead_quality_label = <<"M","e","d","i","u","m">>
  /\ ret.human_attention_required = FALSE

\* C9: with the default thresholds no lead is Invalid or routed to
\* "Archive / Ignore Agent": the score is never below 45.
C9_NeverInvalid ==
  Returned("qualify_lead") =>
    /\ ret.lead_quality_score >= 45
    /\ ret.lead_quality_label # <<"I","n","v","a","l","i","d">>
    /\ ret.recommended_next_agent # <<"A","r","c","h","i","v","e"," ","/"," ","I","g","n","o","r","e"," ","A","g","e","n","t">>

\* the lowest score: no bonus and the feasibility penalty
C9_Witness ==
  /\ Returned("qualify_lead")
  /\ ret.lead_quality_score = 45
  /\ ret.lead_quality_label = <<"L","o","w">>

\* C10: the feasibility score is one of 50, 60, 80, 100; so every call of
\* qualify_lead logs a feasibility sentence and never returns the default
\* reasoning sentence.
C10_FeasibilityAlwaysAdjusts ==
  /\ Returned("_compute_location_feasibility") => ret \in {50, 60, 80, 100}
  /\ Returned("qualify_lead") =>
       /\ ret.location_feasibility_score \in {50, 60, 80, 100}
       /\ ret.reasoning_summary # <<>>
       /\ ret.reasoning_summary # <<"L","e","a","d"," ","e","v","a","l","u","a","t","e","d"," ","w","i","t","h"," ","d","e","f","a","u","l","t"," ","h","e","u","r","i","s","t","i","c","s",".">>
       /\ \/ str_in(<<"P","r","e","c","i","s","e"," ","l","o","c","a","t","i","o","n"," ","m","a","k","e","s"," ","h","o","m","e"," ","t","u","t","o","r","i","n","g"," ","f","e","a","s","i","b","l","e",".">>,
                    ret.reasoning_summary)
          \/ str_in(<<"G","e","n","e","r","i","c"," ","l","o","c","a","t","i","o","n"," ","l","o","w","e","r","s"," ","m","a","t","c","h"," ","c","o","n","f","i","d","e","n","c","e",".">>,
                    ret.reasoning_summary)

\* a lead with no bonus at all: the feasibility sentence is the whole summary
C10_Witness ==
  /\ Returned("qualify_lead")
  /\ ret.location_feasibility_score = 60
  /\ ret.reasoning_summary = <<"G","e","n","e","r","i","c"," ","l","o","c","a","t","i","o","n"," ","l","o","w","e","r","s"," ","m","a","t","c","h"," ","c","o","n","f","i","d","e","n","c","e",".">>

====
